---- MODULE Spec2Model ----
(***************************************************************************)
(* The chat gateway of tutor-bot-now (the edge function serving the chat   *)
(* endpoint): request validation, intent classification, the timeout-      *)
(* guarded upstream call and the mapping of outcomes to responses.         *)
(*                                                                         *)
(* One request is followed from its arrival to its response.  The handler  *)
(* is an async function: each action below is one run of the handler       *)
(* between two awaits (a task of the event loop together with the          *)
(* microtasks it queues), or one step of the environment (time passing).   *)
(***************************************************************************)
EXTENDS Integers, Sequences, FiniteSets, TLC

(***************************************************************************)
(* Program constants.                                                      *)
(***************************************************************************)
REQUEST_TIMEOUT == 30000

MAX_PAYLOAD_SIZE == 100000

MAX_MESSAGES == 50

MaxContentLen == 10000

(***************************************************************************)
(* Bounds of the model.                                                    *)
(***************************************************************************)
\* the correlation tokens generateRequestId may return
NumIds == 2

\* how far one step of time advances the clock (ms)
TickMs == 10000

\* the clock stops advancing here (ms)
MaxClock == 40000

\* chat page: the ids sessions get, 1 to MaxSessions
MaxSessions == 3

\* chat page: the messages sent in a behaviour
MaxSends == 2

(***************************************************************************)
(* Decoded JSON values, as JavaScript sees them.  A string is its text     *)
(* followed by `pad` space characters, which keeps strings of 10,000       *)
(* characters small.                                                       *)
(***************************************************************************)
Props == {"messages", "role", "content", "choices", "message"}

Undefined == [t |-> "undefined"]

JNull == [t |-> "null"]

JNum(n) == [t |-> "number", n |-> n]

JBool(b) == [t |-> "boolean", b |-> b]

JStr(s, pad) == [t |-> "string", s |-> s, pad |-> pad]

JArr(items) == [t |-> "array", items |-> items]

EmptyFields == [p \in Props |-> Undefined]

JObj(fields) == [t |-> "object", fields |-> fields]

\* {role: r, content: c}; a property given as Undefined is absent
MsgObj(r, c) == JObj([EmptyFields EXCEPT !["role"] = r, !["content"] = c])

\* s.length
StrLength(v) == Len(v.s) + v.pad

\* JavaScript's ToBoolean
Truthy(v) ==
  CASE v.t = "undefined" -> FALSE
    [] v.t = "null" -> FALSE
    [] v.t = "number" -> v.n # 0
    [] v.t = "boolean" -> v.b
    [] v.t = "string" -> StrLength(v) > 0
    [] OTHER -> TRUE

\* reading a property of null or undefined throws a TypeError
PropThrows(v) == v.t \in {"null", "undefined"}

\* v.p for v neither null nor undefined: a primitive or an array has none
\* of the properties the gateway reads
GetProp(v, p) == IF v.t = "object" THEN v.fields[p] ELSE Undefined

\* v[0] for v neither null nor undefined
Index0(v) ==
  IF v.t = "array" /\ Len(v.items) > 0 THEN v.items[1]
  ELSE IF v.t = "string" /\ Len(v.s) > 0 THEN JStr(SubSeq(v.s, 1, 1), 0)
  ELSE IF v.t = "string" /\ v.pad > 0 THEN JStr(" ", 0)
  ELSE Undefined

(***************************************************************************)
(* validateMessages.  Its result is {valid, error}, or the TypeError that  *)
(* reading a property of a null element throws (threw).                    *)
(***************************************************************************)
ErrNotArray == "Messages must be an array"

ErrEmpty == "Messages array cannot be empty"

ErrTooMany == "Too many messages (max 50)"

ErrMissingField == "Each message must have role and content"

ErrInvalidRole == "Invalid message role"

ErrContentType == "Message content must be a string"

ErrTooLong == "Message content too long (max 10000 chars)"

ValidationErrors ==
  {ErrNotArray, ErrEmpty, ErrTooMany, ErrMissingField, ErrInvalidRole,
   ErrContentType, ErrTooLong}

AllowedRoles == {"user", "assistant", "system"}

VOk == [threw |-> FALSE, valid |-> TRUE, error |-> ""]

VFail(e) == [threw |-> FALSE, valid |-> FALSE, error |-> e]

VThrow == [threw |-> TRUE, valid |-> FALSE, error |-> ""]

\* ["user", "assistant", "system"].includes(role)
RoleAllowed(r) == r.t = "string" /\ r.pad = 0 /\ r.s \in AllowedRoles

\* the body of the for loop, for one element: VOk lets the loop go on
CheckMessageContentFirst(msg) ==
  IF PropThrows(msg) THEN VThrow
  ELSE LET role == GetProp(msg, "role")
           content == GetProp(msg, "content")
       IN IF ~Truthy(role) \/ ~Truthy(content) THEN VFail(ErrMissingField)
          ELSE IF content.t # "string" THEN VFail(ErrContentType)
          ELSE IF StrLength(content) > MaxContentLen THEN VFail(ErrTooLong)
          ELSE IF ~RoleAllowed(role) THEN VFail(ErrInvalidRole)
          ELSE VOk

CheckMessage(msg) ==
  IF PropThrows(msg) THEN VThrow
  ELSE LET role == GetProp(msg, "role")
           content == GetProp(msg, "content")
       IN IF ~Truthy(role) \/ ~Truthy(content) THEN VFail(ErrMissingField)
          ELSE IF ~RoleAllowed(role) THEN VFail(ErrInvalidRole)
          ELSE IF content.t # "string" THEN VFail(ErrContentType)
          ELSE IF StrLength(content) > MaxContentLen THEN VFail(ErrTooLong)
          ELSE VOk

\* the rules tried one after the other, each over the whole list
ValidateRuleByRule(items, i) ==
  LET rest == i..Len(items)
      role(k) == GetProp(items[k], "role")
      content(k) == GetProp(items[k], "content")
  IN IF \E k \in rest : PropThrows(items[k]) THEN VThrow
     ELSE IF \E k \in rest : ~Truthy(role(k)) \/ ~Truthy(content(k))
       THEN VFail(ErrMissingField)
     ELSE IF \E k \in rest : ~RoleAllowed(role(k)) THEN VFail(ErrInvalidRole)
     ELSE IF \E k \in rest : content(k).t # "string" THEN VFail(ErrContentType)
     ELSE IF \E k \in rest : StrLength(content(k)) > MaxContentLen
       THEN VFail(ErrTooLong)
     ELSE VOk

RECURSIVE ValidateFrom(_, _)
\* the for loop from element i on: the first element that fails ends it
ValidateFrom(items, i) ==
  IF i > Len(items) THEN VOk
  ELSE LET r == CheckMessage(items[i])
       IN IF r = VOk THEN ValidateFrom(items, i + 1) ELSE r

validateMessages(messages) ==
  IF messages.t # "array" THEN VFail(ErrNotArray)
  ELSE IF Len(messages.items) = 0 THEN VFail(ErrEmpty)
  ELSE IF Len(messages.items) > MAX_MESSAGES THEN VFail(ErrTooMany)
  ELSE ValidateFrom(messages.items, 1)

(***************************************************************************)
(* Agent detection: three case-insensitive regular expressions, each an    *)
(* alternation of literal keywords, tried in order.                        *)
(***************************************************************************)
MathKeywords ==
  {"math", "solve", "equation", "calculate", "algebra", "geometry", "calculus"}

WritingKeywords ==
  {"essay", "grammar", "write", "writing", "paragraph", "sentence"}

CodingKeywords ==
  {"code", "coding", "bug", "python", "javascript", "program", "function",
   "algorithm"}

UpperToLower ==
  ("A" :> "a") @@ ("B" :> "b") @@ ("C" :> "c") @@ ("D" :> "d") @@ ("E" :> "e")
  @@ ("F" :> "f") @@ ("G" :> "g") @@ ("H" :> "h") @@ ("I" :> "i")
  @@ ("J" :> "j") @@ ("K" :> "k") @@ ("L" :> "l") @@ ("M" :> "m")
  @@ ("N" :> "n") @@ ("O" :> "o") @@ ("P" :> "p") @@ ("Q" :> "q")
  @@ ("R" :> "r") @@ ("S" :> "s") @@ ("T" :> "t") @@ ("U" :> "u")
  @@ ("V" :> "v") @@ ("W" :> "w") @@ ("X" :> "x") @@ ("Y" :> "y")
  @@ ("Z" :> "z")

\* the i-th character of s, folded to lower case (the i flag)
LowerAt(s, i) ==
  LET c == SubSeq(s, i, i)
  IN IF c \in DOMAIN UpperToLower THEN UpperToLower[c] ELSE c

\* the keyword occurs in s at position i, whatever the case
MatchesAt(s, kw, i) ==
  \A j \in 1..Len(kw) : LowerAt(s, i + j - 1) = SubSeq(kw, j, j)

\* /kw1|kw2|.../i.test(v) for a string v; the padding is spaces and no
\* keyword holds a space, so a match lies in the text
RegexTest(kws, v) ==
  /\ v.t = "string"
  /\ \E kw \in kws :
       \E i \in 1..(Len(v.s) - Len(kw) + 1) : MatchesAt(v.s, kw, i)

\* messages[messages.length - 1]?.content || ""
LastMessage(messages) ==
  LET last == messages.items[Len(messages.items)]
      content == IF PropThrows(last) THEN Undefined
                 ELSE GetProp(last, "content")
  IN IF Truthy(content) THEN content ELSE JStr("", 0)

\* the labels end with an emoji in the source, written here by code point
AgentMath == "Math Agent U+1F4D0"

AgentWriting == "Writing Agent U+270D"

AgentCoding == "Coding Agent U+1F4BB"

AgentResearch == "Research Agent U+1F4DA"

\* the initial value of `agent`, overwritten by every branch
AgentInitial == "General Research Agent"

PromptInitial == "You are a helpful educational assistant."

PromptMath == "You are a Math Agent."

PromptWriting == "You are a Writing Agent."

PromptCoding == "You are a Coding Agent."

PromptResearch == "You are a Research Agent."

\* the chain with the coding keywords tried first
DetectAgentCodingFirst(lastMessage) ==
  IF RegexTest(CodingKeywords, lastMessage)
    THEN [agent |-> AgentCoding, systemPrompt |-> PromptCoding]
  ELSE IF RegexTest(MathKeywords, lastMessage)
    THEN [agent |-> AgentMath, systemPrompt |-> PromptMath]
  ELSE IF RegexTest(WritingKeywords, lastMessage)
    THEN [agent |-> AgentWriting, systemPrompt |-> PromptWriting]
  ELSE [agent |-> AgentResearch, systemPrompt |-> PromptResearch]

\* agent and systemPrompt after the if / else-if chain
DetectAgent(lastMessage) ==
  IF RegexTest(MathKeywords, lastMessage)
    THEN [agent |-> AgentMath, systemPrompt |-> PromptMath]
  ELSE IF RegexTest(WritingKeywords, lastMessage)
    THEN [agent |-> AgentWriting, systemPrompt |-> PromptWriting]
  ELSE IF RegexTest(CodingKeywords, lastMessage)
    THEN [agent |-> AgentCoding, systemPrompt |-> PromptCoding]
  ELSE [agent |-> AgentResearch, systemPrompt |-> PromptResearch]

(***************************************************************************)
(* Request headers.  req.headers.get gives null for an absent header.      *)
(***************************************************************************)
NoHeader == [present |-> FALSE, s |-> ""]

Header(s) == [present |-> TRUE, s |-> s]

\* s.includes(sub)
Includes(s, sub) ==
  \E i \in 1..(Len(s) - Len(sub) + 1) : SubSeq(s, i, i + Len(sub) - 1) = sub

\* contentType?.includes("application/json")
IsJsonContentType(contentType) ==
  contentType.present /\ Includes(contentType.s, "application/json")

DigitValue ==
  ("0" :> 0) @@ ("1" :> 1) @@ ("2" :> 2) @@ ("3" :> 3) @@ ("4" :> 4)
  @@ ("5" :> 5) @@ ("6" :> 6) @@ ("7" :> 7) @@ ("8" :> 8) @@ ("9" :> 9)

RECURSIVE ParseDigits(_, _, _)
\* the value of the run of decimal digits of s that starts at i, after acc
ParseDigits(s, i, acc) ==
  IF i > Len(s) \/ SubSeq(s, i, i) \notin DOMAIN DigitValue THEN acc
  ELSE ParseDigits(s, i + 1, acc * 10 + DigitValue[SubSeq(s, i, i)])

\* parseInt(s): the leading decimal digits of s, NaN when there are none
\* (a content-length holds no white space and no sign)
parseInt(s) ==
  IF Len(s) = 0 \/ SubSeq(s, 1, 1) \notin DOMAIN DigitValue
    THEN [nan |-> TRUE, n |-> 0]
  ELSE [nan |-> FALSE, n |-> ParseDigits(s, 1, 0)]

\* contentLength && parseInt(contentLength) > MAX_PAYLOAD_SIZE
PayloadTooLarge(contentLength) ==
  /\ contentLength.present
  /\ Len(contentLength.s) > 0
  /\ ~parseInt(contentLength.s).nan
  /\ parseInt(contentLength.s).n > MAX_PAYLOAD_SIZE

(***************************************************************************)
(* Responses.  A response is a status, the names of its headers and a      *)
(* body; new Response without a status has status 200.                     *)
(***************************************************************************)
corsHeaders ==
  ("Access-Control-Allow-Origin" :> "*")
  @@ ("Access-Control-Allow-Headers"
        :> "authorization, x-client-info, apikey, content-type")

\* { ...corsHeaders, "Content-Type": "application/json" }
JsonHeaders == corsHeaders @@ ("Content-Type" :> "application/json")

\* no header at all
NoHeaders == [name \in {} |-> ""]

EmptyBody == [empty |-> TRUE]

ErrorBody(error) == [error |-> error]

CodedBody(error, code) == [error |-> error, code |-> code]

ReplyBody(agent, reply) == [agent |-> agent, reply |-> reply]

Response(status, headers, body) ==
  [status |-> status, headers |-> headers, body |-> body]

\* no response has been returned yet
NoResponse == Response(0, NoHeaders, EmptyBody)

JsonError(status, error) == Response(status, JsonHeaders, ErrorBody(error))

JsonCoded(status, error, code) ==
  Response(status, JsonHeaders, CodedBody(error, code))

(***************************************************************************)
(* Thrown values: a name and a message.                                    *)
(***************************************************************************)
Thrown(name, message) == [name |-> name, message |-> message]

NoError == Thrown("", "")

DestructureError ==
  Thrown("TypeError", "Cannot destructure property 'messages' of 'body'")

ReadRoleError ==
  Thrown("TypeError", "Cannot read properties of null (reading 'role')")

ReadChoicesError ==
  Thrown("TypeError", "Cannot read properties of null (reading 'choices')")

ReadIndexError ==
  Thrown("TypeError", "Cannot read properties of undefined (reading '0')")

MissingKeyError == Thrown("Error", "LOVABLE_API_KEY is not configured")

\* what fetch rejects with when its signal is aborted
AbortError == Thrown("AbortError", "The signal has been aborted")

\* what fetch rejects with when the connection fails
NetworkError == Thrown("TypeError", "error sending request")

\* what response.text() and response.json() reject with when the body breaks off
BodyReadError == Thrown("TypeError", "error reading a body from connection")

\* what response.json() rejects with when the body is not JSON
JsonSyntaxError == Thrown("SyntaxError", "Unexpected end of JSON input")

\* the catch of fetchWithTimeout rethrows after the mapping below
RethrowUnmapped(error) == error

\* every rejection of the fetch taken for the timeout
FetchCatchAllTimeout(error) == Thrown("Error", "Request timeout")

\* a timer that is left as it is
KeepTimeout(t) == t

\* clearTimeout(timeoutId): a timer that has not fired is cancelled
ClearTimeout(t) == IF t = "armed" THEN "cleared" ELSE t

FetchCatch(error) ==
  IF error.name = "AbortError" THEN Thrown("Error", "Request timeout")
  ELSE error

\* the response of the handler's catch block
CatchResponse(error) ==
  IF error.message = "Request timeout"
    THEN JsonCoded(504, "Request timed out. Please try again.", "TIMEOUT")
  ELSE JsonCoded(500, error.message, "INTERNAL_ERROR")

(***************************************************************************)
(* Log entries (the timestamp is left out).                                *)
(***************************************************************************)
LogEntry(level, id, message, data) ==
  [level |-> level, requestId |-> id, message |-> message, data |-> data]

NoData == [none |-> TRUE]

\* the entry the catch block logs
UnhandledLog(id, error) ==
  LogEntry("error", id, "Unhandled error",
           [message |-> error.message, stack |-> error.name])

(***************************************************************************)
(* The reply taken from the decoded upstream body:                         *)
(*   data.choices[0]?.message?.content || "I'm sorry, ..."                 *)
(***************************************************************************)
Fallback == JStr("I'm sorry, I couldn't generate a response.", 0)

Extracted(reply) == [threw |-> FALSE, error |-> NoError, reply |-> reply]

ExtractThrew(error) == [threw |-> TRUE, error |-> error, reply |-> Undefined]

\* v?.p
OptProp(v, p) == IF PropThrows(v) THEN Undefined ELSE GetProp(v, p)

ExtractReply(data) ==
  IF PropThrows(data) THEN ExtractThrew(ReadChoicesError)
  ELSE LET choices == GetProp(data, "choices")
       IN IF PropThrows(choices) THEN ExtractThrew(ReadIndexError)
          ELSE LET content ==
                     OptProp(OptProp(Index0(choices), "message"), "content")
               IN Extracted(IF Truthy(content) THEN content ELSE Fallback)

\* response.ok
StatusIsOk(status) == status >= 200 /\ status <= 299

\* the call that forwards the last message only
UpstreamPayloadLastOnly(systemPrompt, messages) ==
  [model |-> "google/gemini-2.5-flash",
   messages |-> <<MsgObj(JStr("system", 0), JStr(systemPrompt, 0)),
                  messages.items[Len(messages.items)]>>,
   temperature |-> "0.7",
   max_tokens |-> 1000]

\* the body of the upstream call
UpstreamPayload(systemPrompt, messages) ==
  [model |-> "google/gemini-2.5-flash",
   messages |-> <<MsgObj(JStr("system", 0), JStr(systemPrompt, 0))>>
                  \o messages.items,
   temperature |-> "0.7",
   max_tokens |-> 1000]

NoPayload ==
  [model |-> "", messages |-> <<>>, temperature |-> "", max_tokens |-> 0]

(***************************************************************************)
(* The inputs of the model: requests, the environment's credential and     *)
(* the outcomes of the upstream call.                                      *)
(***************************************************************************)
Methods == {"OPTIONS", "POST", "GET"}

ContentTypes ==
  {NoHeader, Header("application/json"),
   Header("application/json; charset=utf-8"), Header("text/plain"),
   Header("Application/JSON")}

ContentLengths ==
  {NoHeader, Header("512"), Header("100000"), Header("100001"),
   Header("250000")}

\* a content type that is not JSON and names JSON in a parameter
ParameterContentType == Header("text/plain; note=application/json")

\* method and headers of the requests
Requests ==
  {[method |-> m, contentType |-> ct, contentLength |-> cl] :
     m \in Methods, ct \in ContentTypes, cl \in ContentLengths}
  \cup {[method |-> "POST", contentType |-> ParameterContentType,
         contentLength |-> NoHeader]}

RequestIds == 1..NumIds

ApiKeys == {NoHeader, Header("sk-test")}

\* the text s padded with spaces to n characters
TextOfLength(s, n) == JStr(s, n - Len(s))

RoleValues ==
  {Undefined, JStr("user", 0), JStr("assistant", 0), JStr("admin", 0), JNum(1)}

ContentValues ==
  {Undefined, JStr("", 0), JStr("hello", 0), JStr("Solve x", 0),
   TextOfLength("essay", MaxContentLen),
   TextOfLength("hello", MaxContentLen + 1), JNum(7)}

ValidMsg == MsgObj(JStr("user", 0), JStr("hello", 0))

FirstElements ==
  {JNull, JNum(5)} \cup {MsgObj(r, c) : r \in RoleValues, c \in ContentValues}

SecondElements ==
  {ValidMsg, JNull,
   MsgObj(JStr("assistant", 0), JStr("Solve x", 0)),
   MsgObj(JStr("admin", 0), JStr("hello", 0)),
   MsgObj(JStr("user", 0), Undefined),
   MsgObj(JStr("user", 0), JNum(7)),
   MsgObj(JStr("user", 0), TextOfLength("hello", MaxContentLen + 1))}

\* the list made n long with valid messages
PadTo(list, n) == list \o [i \in 1..(n - Len(list)) |-> ValidMsg]

MessageLists ==
  {<<>>} \cup {<<e>> : e \in FirstElements}
  \cup {<<e, f>> : e \in FirstElements, f \in SecondElements}
  \cup {PadTo(<<>>, MAX_MESSAGES), PadTo(<<>>, MAX_MESSAGES + 1),
        PadTo(<<MsgObj(JStr("admin", 0), JStr("hello", 0))>>, MAX_MESSAGES),
        PadTo(<<MsgObj(JStr("admin", 0), JStr("hello", 0))>>, MAX_MESSAGES + 1),
        PadTo(<<JNull>>, MAX_MESSAGES + 1)}

\* texts for the agent detection: no keyword, math and coding keywords,
\* writing and coding keywords, coding keywords only
ClassifierTexts ==
  {"diagram: water cycle", "calculate the runtime of this algorithm",
   "write a python function", "fix the bug in my program"}

\* lists of one user message, and a list that ends with a system message
ClassifierLists ==
  {<<MsgObj(JStr("user", 0), JStr(t, 0))>> : t \in ClassifierTexts}
  \cup {<<MsgObj(JStr("user", 0), JStr("fix the bug in my program", 0)),
          MsgObj(JStr("system", 0), JStr("improve the grammar", 0))>>}

\* the longest list of the longest messages the validation accepts
LargestList ==
  [i \in 1..MAX_MESSAGES |->
     MsgObj(JStr("user", 0), TextOfLength("essay", MaxContentLen))]

MessagesValues ==
  {Undefined, JNull, JNum(3), JStr("hi", 0), JObj(EmptyFields)}
  \cup {JArr(l) : l \in MessageLists \cup ClassifierLists \cup {LargestList}}

WithMessages(m) == JObj([EmptyFields EXCEPT !["messages"] = m])

\* what req.json() gives: a decoded value, or a rejection
Decoded(v) == [ok |-> TRUE, value |-> v]

DecodeFailure == [ok |-> FALSE, value |-> Undefined]

RequestBodies ==
  {DecodeFailure}
  \cup {Decoded(v) : v \in {JNull, JNum(1), JStr("x", 0), JBool(TRUE), JArr(<<>>)}}
  \cup {Decoded(WithMessages(m)) : m \in MessagesValues}

RECURSIVE JsonSize(_), ItemsSize(_, _), FieldsSize(_, _)
\* the length of the shortest JSON text that decodes to v
JsonSize(v) ==
  CASE v.t = "null" -> 4
    [] v.t = "number" -> IF v.n < 10 THEN 1 ELSE 2
    [] v.t = "boolean" -> IF v.b THEN 4 ELSE 5
    [] v.t = "string" -> StrLength(v) + 2
    [] v.t = "array" ->
         2 + ItemsSize(v.items, 1)
         + (IF Len(v.items) > 1 THEN Len(v.items) - 1 ELSE 0)
    [] v.t = "object" ->
         LET present == {p \in Props : v.fields[p].t # "undefined"}
         IN 2 + FieldsSize(v.fields, present)
            + (IF present = {} THEN 0 ELSE Cardinality(present) - 1)
    [] OTHER -> 0

\* the elements of an array from the i-th on
ItemsSize(items, i) ==
  IF i > Len(items) THEN 0
  ELSE JsonSize(items[i]) + ItemsSize(items, i + 1)

\* "name":value for the properties in ps
FieldsSize(fields, ps) ==
  IF ps = {} THEN 0
  ELSE LET p == CHOOSE q \in ps : TRUE
       IN Len(p) + 3 + JsonSize(fields[p]) + FieldsSize(fields, ps \ {p})

\* a body is as long as its content-length declares, so a body that decodes
\* to a value is not shorter than the shortest text of that value; a request
\* without the header is sent in chunks, of any total length
FitsDeclared(b, contentLength) ==
  \/ ~contentLength.present
  \/ parseInt(contentLength.s).nan
  \/ ~b.ok
  \/ JsonSize(b.value) <= parseInt(contentLength.s).n

UpstreamStatuses == {200, 204, 402, 429, 404, 500}

Choices(c) == JObj([EmptyFields EXCEPT !["choices"] = c])

MessageOf(m) == JObj([EmptyFields EXCEPT !["message"] = m])

ContentOf(c) == JObj([EmptyFields EXCEPT !["content"] = c])

\* decoded bodies of an upstream response
UpstreamData ==
  {JNull, JNum(5), JObj(EmptyFields), Choices(JNull), Choices(JNum(5)),
   Choices(JStr("no", 0)), Choices(JArr(<<>>)), Choices(JArr(<<JNull>>)),
   Choices(JArr(<<JObj(EmptyFields)>>)),
   Choices(JArr(<<MessageOf(JNull)>>)),
   Choices(JArr(<<MessageOf(JObj(EmptyFields))>>)),
   Choices(JArr(<<MessageOf(ContentOf(JStr("", 0)))>>)),
   Choices(JArr(<<MessageOf(ContentOf(JNum(42)))>>)),
   Choices(JArr(<<MessageOf(ContentOf(JStr("Here is an explanation...", 0)))>>))}

\* the text of an upstream error body
UpstreamTexts == {"", "upstream failure detail"}

(***************************************************************************)
(* The state: one request, from its arrival to its response.               *)
(***************************************************************************)
VARIABLES
  pc,            \* where the handler is suspended
  req,           \* method and headers of the request
  requestId,     \* the correlation token of the request
  apiKey,        \* the environment's LOVABLE_API_KEY
  body,          \* what req.json() gave
  bodyRead,      \* req.json() was called
  agent,         \* the agent selected
  payload,       \* the body sent upstream
  upstreamCalls, \* fetches issued for this request
  fetchState,    \* none, pending, resolved, rejected, aborted
  timer,         \* the setTimeout of fetchWithTimeout: none, armed, cleared, fired
  aborted,       \* controller.signal.aborted
  clock,         \* ms since the fetch was issued
  upstream,      \* the status the upstream answered with (0: none)
  upstreamBody,  \* what reading the upstream response body gave
  resp,          \* the response returned to the caller
  logs,          \* the entries logged for this request
  prev,          \* what an earlier invocation of the handler came to
  other,         \* a second invocation in flight at the same time
  sessions,         \* chat page: the sessions, each with its messages
  currentSessionId, \* chat page: the id of the session shown
  chatMessages,     \* chat page: the state `messages`, the list shown
  isLoading,        \* chat page: a request is in flight
  pending,          \* chat page: the number of the send awaited (0: none)
  sentFrom,         \* chat page: for each send, the session it was made in
  nextId            \* chat page: the id the next new session gets

vars ==
  <<pc, req, requestId, apiKey, body, bodyRead, agent, payload, upstreamCalls,
    fetchState, timer, aborted, clock, upstream, upstreamBody, resp, logs,
    prev, other, sessions, currentSessionId, chatMessages, isLoading,
    pending, sentFrom, nextId>>

\* the state of the chat page
chatVars ==
  <<sessions, currentSessionId, chatMessages, isLoading, pending, sentFrom,
    nextId>>

\* the upstream body: not read yet, read as text, decoded, or the read failed
BodyUnread == [kind |-> "none", text |-> "", value |-> Undefined]

BodyText(text) == [kind |-> "text", text |-> text, value |-> Undefined]

BodyData(value) == [kind |-> "json", text |-> "", value |-> value]

\* the read rejected with the error, whose message is kept as the text
BodyFailed(error) ==
  [kind |-> "failed", text |-> error.message, value |-> Undefined]

NoRequest == [method |-> "", contentType |-> NoHeader, contentLength |-> NoHeader]

\* what an invocation came to: the code and the sentence of its error
\* response, and the text it classified with the agent it selected
\* a request without its message texts, for a request that failed the
\* validation: nothing is kept
NoFrame ==
  [valid |-> FALSE, req |-> NoRequest, messages |-> <<>>,
   fetchState |-> "none", upstream |-> 0, upstreamBody |-> BodyUnread]

NoOutcome ==
  [code |-> "", error |-> "", classified |-> FALSE,
   content |-> JStr("", 0), agent |-> "", frame |-> NoFrame,
   entries |-> <<>>]

\* the state of a second invocation: its own locals
NoOther ==
  [pc |-> "idle", req |-> NoRequest, requestId |-> 0, body |-> DecodeFailure,
   bodyRead |-> FALSE, agent |-> "", upstreamCalls |-> 0,
   fetchState |-> "none", upstream |-> 0, upstreamBody |-> BodyUnread,
   resp |-> NoResponse, logs |-> <<>>]

\* a chat session: {id, title, timestamp, messages} without title and time
Session(id, msgs) == [id |-> id, messages |-> msgs]

Init ==
  /\ pc = "idle"
  /\ req = NoRequest
  /\ requestId = 0
  /\ apiKey \in ApiKeys
  /\ body = DecodeFailure
  /\ bodyRead = FALSE
  /\ agent = ""
  /\ payload = NoPayload
  /\ upstreamCalls = 0
  /\ fetchState = "none"
  /\ timer = "none"
  /\ aborted = FALSE
  /\ clock = 0
  /\ upstream = 0
  /\ upstreamBody = BodyUnread
  /\ resp = NoResponse
  /\ logs = <<>>
  /\ prev = NoOutcome
  /\ other = NoOther
  /\ sessions = <<Session(1, <<>>)>>
  /\ currentSessionId = 1
  /\ chatMessages = <<>>
  /\ isLoading = FALSE
  /\ pending = 0
  /\ sentFrom = <<>>
  /\ nextId = 2

\* an `agent` shared by the invocations: the last one written wins
SharedAgent(own, foreign) == IF foreign # "" THEN foreign ELSE own

\* `let agent` is a local of the invocation: what another invocation holds
\* is not what the handler reads
LocalAgent(own, foreign) == own

\* a step of the handler: where it goes on and what it has produced
Step(at, response, entries, ag, sent) ==
  [pc |-> at, resp |-> response, logs |-> entries, agent |-> ag,
   payload |-> sent]

\* a return of a response
Return(response, entries) == Step("done", response, entries, "", NoPayload)

\* a catch that answers without logging
CatchUnlogged(error, id, entries) == Return(CatchResponse(error), entries)

\* a throw inside the try block: the catch logs and answers
Catch(error, id, entries) ==
  Return(CatchResponse(error), Append(entries, UnhandledLog(id, error)))

\* the handler without the OPTIONS branch
HandleEntryNoPreflight(r, id) ==
  LET entry == <<LogEntry("info", id, "Incoming request",
                          [method |-> r.method])>>
  IN IF ~IsJsonContentType(r.contentType)
       THEN Return(JsonError(400, "Content-Type must be application/json"),
                   Append(entry,
                          LogEntry("warn", id, "Invalid content-type",
                                   [contentType |-> r.contentType])))
     ELSE IF PayloadTooLarge(r.contentLength)
       THEN Return(JsonError(413, "Payload too large"),
                   Append(entry,
                          LogEntry("warn", id, "Payload too large",
                                   [contentLength |-> r.contentLength])))
     ELSE Step("readingRequest", NoResponse, entry, "", NoPayload)

(***************************************************************************)
(* The handler up to its first await: the token, OPTIONS, the entry log,   *)
(* the content-type and the declared-size checks.                          *)
(***************************************************************************)
HandleEntry(r, id) ==
  IF r.method = "OPTIONS" THEN Return(Response(200, corsHeaders, EmptyBody), <<>>)
  ELSE LET entry == <<LogEntry("info", id, "Incoming request",
                               [method |-> r.method])>>
       IN IF ~IsJsonContentType(r.contentType)
            THEN Return(JsonError(400, "Content-Type must be application/json"),
                        Append(entry,
                               LogEntry("warn", id, "Invalid content-type",
                                        [contentType |-> r.contentType])))
          ELSE IF PayloadTooLarge(r.contentLength)
            THEN Return(JsonError(413, "Payload too large"),
                        Append(entry,
                               LogEntry("warn", id, "Payload too large",
                                        [contentLength |-> r.contentLength])))
          ELSE Step("readingRequest", NoResponse, entry, "", NoPayload)

(***************************************************************************)
(* The handler from the decoded body to the upstream call.                 *)
(***************************************************************************)
\* the upstream call issued without looking at the credential
HandleValidatedUnchecked(messages, key, id, entries) ==
  LET chosen == DetectAgent(LastMessage(messages))
  IN Step("fetching", NoResponse,
          Append(Append(entries,
                        LogEntry("info", id, "Request validated",
                                 [messageCount |-> Len(messages.items)])),
                 LogEntry("info", id, "Agent selected",
                          [agent |-> chosen.agent])),
          chosen.agent,
          UpstreamPayload(chosen.systemPrompt, messages))

\* the agent detection run for the first request token only
HandleValidatedByToken(messages, key, id, entries) ==
  LET validated == Append(entries,
                          LogEntry("info", id, "Request validated",
                                   [messageCount |-> Len(messages.items)]))
  IN IF ~(key.present /\ Len(key.s) > 0)
       THEN Catch(MissingKeyError, id,
                  Append(validated,
                         LogEntry("error", id, "LOVABLE_API_KEY not configured",
                                  NoData)))
     ELSE LET chosen == IF id = 1 THEN DetectAgent(LastMessage(messages))
                        ELSE [agent |-> AgentResearch,
                              systemPrompt |-> PromptResearch]
          IN Step("fetching", NoResponse,
                  Append(validated,
                         LogEntry("info", id, "Agent selected",
                                  [agent |-> chosen.agent])),
                  chosen.agent,
                  UpstreamPayload(chosen.systemPrompt, messages))

\* the handler that logs the classified text with the agent
HandleValidatedLogsContent(messages, key, id, entries) ==
  LET validated == Append(entries,
                          LogEntry("info", id, "Request validated",
                                   [messageCount |-> Len(messages.items)]))
  IN IF ~(key.present /\ Len(key.s) > 0)
       THEN Catch(MissingKeyError, id,
                  Append(validated,
                         LogEntry("error", id, "LOVABLE_API_KEY not configured",
                                  NoData)))
     ELSE LET chosen == DetectAgent(LastMessage(messages))
          IN Step("fetching", NoResponse,
                  Append(validated,
                         LogEntry("info", id, "Agent selected",
                                  [agent |-> chosen.agent,
                                   lastMessage |-> LastMessage(messages).s])),
                  chosen.agent,
                  UpstreamPayload(chosen.systemPrompt, messages))

\* from the credential check on, for a validated list
HandleValidated(messages, key, id, entries) ==
  LET validated == Append(entries,
                          LogEntry("info", id, "Request validated",
                                   [messageCount |-> Len(messages.items)]))
  IN IF ~(key.present /\ Len(key.s) > 0)
       THEN Catch(MissingKeyError, id,
                  Append(validated,
                         LogEntry("error", id, "LOVABLE_API_KEY not configured",
                                  NoData)))
     ELSE LET chosen == DetectAgent(LastMessage(messages))
          IN Step("fetching", NoResponse,
                  Append(validated,
                         LogEntry("info", id, "Agent selected",
                                  [agent |-> chosen.agent])),
                  chosen.agent,
                  UpstreamPayload(chosen.systemPrompt, messages))

\* from `const { messages } = body` on, for a decoded body
HandleDecoded(value, key, id, entries) ==
  IF PropThrows(value) THEN Catch(DestructureError, id, entries)
  ELSE LET messages == GetProp(value, "messages")
           validation == validateMessages(messages)
       IN IF validation.threw THEN Catch(ReadRoleError, id, entries)
          ELSE IF ~validation.valid
            THEN Return(JsonError(400, validation.error),
                        Append(entries,
                               LogEntry("warn", id, "Validation failed",
                                        [error |-> validation.error])))
          ELSE HandleValidated(messages, key, id, entries)

\* a body that does not decode taken for an empty object
HandleBodyDefaultsEmpty(b, key, id, entries) ==
  HandleDecoded(IF b.ok THEN b.value ELSE JObj(EmptyFields), key, id, entries)

\* from the settled req.json() on
HandleBody(b, key, id, entries) ==
  IF ~b.ok
    THEN Return(JsonError(400, "Invalid JSON in request body"),
                Append(entries,
                       LogEntry("error", id, "Invalid JSON payload", NoData)))
  ELSE HandleDecoded(b.value, key, id, entries)

(***************************************************************************)
(* The handler after the upstream answered.                                *)
(***************************************************************************)
\* from `if (!response.ok)` to the next await or return
HandleStatus(status, id, entries, ag) ==
  IF ~StatusIsOk(status)
    THEN LET logged == Append(entries,
                              LogEntry("error", id, "AI gateway error",
                                       [status |-> status]))
         IN IF status = 429
              THEN Return(JsonCoded(429,
                                    "Rate limit exceeded. Please try again later.",
                                    "RATE_LIMIT_EXCEEDED"),
                          logged)
            ELSE IF status = 402
              THEN Return(JsonCoded(402,
                                    "Payment required. Please add credits to your workspace.",
                                    "PAYMENT_REQUIRED"),
                          logged)
            ELSE Step("readingText", NoResponse, logged, ag, NoPayload)
  ELSE Step("readingJson", NoResponse, entries, ag, NoPayload)

\* after response.text() of a failure status
HandleErrorText(errorText, id, entries) ==
  Return(JsonCoded(503, "AI service error. Please try again.", "AI_SERVICE_ERROR"),
         Append(entries,
                LogEntry("error", id, "AI gateway detailed error",
                         [errorText |-> errorText])))

\* reply.length
ReplyLength(reply) ==
  IF reply.t = "string" THEN JNum(StrLength(reply))
  ELSE IF reply.t = "array" THEN JNum(Len(reply.items))
  ELSE Undefined

\* after response.json() of a success status
HandleData(data, id, entries, ag) ==
  LET got == ExtractReply(data)
  IN IF got.threw THEN Catch(got.error, id, entries)
     ELSE Return(Response(200, JsonHeaders, ReplyBody(ag, got.reply)),
                 Append(entries,
                        LogEntry("info", id, "Response generated successfully",
                                 [agent |-> ag,
                                  replyLength |-> ReplyLength(got.reply)])))

(***************************************************************************)
(* Actions.                                                                *)
(***************************************************************************)
\* a request arrives and the handler runs to its first await
Receive(method, contentType, contentLength, id) ==
  /\ pc = "idle"
  /\ LET r == [method |-> method, contentType |-> contentType,
               contentLength |-> contentLength]
         st == HandleEntry(r, id)
     IN /\ req' = r
        /\ pc' = st.pc
        /\ resp' = st.resp
        /\ logs' = st.logs
  /\ requestId' = id
  /\ body' = DecodeFailure
  /\ bodyRead' = FALSE
  /\ agent' = ""
  /\ payload' = NoPayload
  /\ upstreamCalls' = 0
  /\ fetchState' = "none"
  /\ timer' = "none"
  /\ aborted' = FALSE
  /\ clock' = 0
  /\ upstream' = 0
  /\ upstreamBody' = BodyUnread
  /\ UNCHANGED <<chatVars, apiKey, prev, other>>

\* req.json() settles; the handler runs to the upstream call or to a return
RequestBodyRead(b) ==
  /\ pc = "readingRequest"
  /\ FitsDeclared(b, req.contentLength)
  /\ body' = b
  /\ bodyRead' = TRUE
  /\ LET st == HandleBody(b, apiKey, requestId, logs)
     IN /\ pc' = st.pc
        /\ resp' = st.resp
        /\ logs' = st.logs
        /\ agent' = st.agent
        /\ payload' = st.payload
        /\ IF st.pc = "fetching"
             THEN /\ upstreamCalls' = upstreamCalls + 1
                  /\ fetchState' = "pending"
                  /\ timer' = "armed"
             ELSE UNCHANGED <<upstreamCalls, fetchState, timer>>
  /\ UNCHANGED <<chatVars, other, prev, req, requestId, apiKey, aborted, clock, upstream,
                 upstreamBody>>

\* the upstream answers with a status: fetch resolves, the timer is cleared
FetchResponds(status) ==
  /\ pc = "fetching"
  /\ fetchState = "pending"
  /\ fetchState' = "resolved"
  /\ timer' = ClearTimeout(timer)
  /\ upstream' = status
  /\ LET st == HandleStatus(status, requestId, logs, agent)
     IN /\ pc' = st.pc
        /\ resp' = st.resp
        /\ logs' = st.logs
  /\ UNCHANGED <<chatVars, other, prev, req, requestId, apiKey, body, bodyRead, agent, payload,
                 upstreamCalls, aborted, clock, upstreamBody>>

\* the connection fails: fetch rejects, the timer is cleared
FetchFails ==
  /\ pc = "fetching"
  /\ fetchState = "pending"
  /\ fetchState' = "rejected"
  /\ timer' = ClearTimeout(timer)
  /\ LET st == Catch(FetchCatch(NetworkError), requestId, logs)
     IN /\ pc' = st.pc
        /\ resp' = st.resp
        /\ logs' = st.logs
  /\ UNCHANGED <<chatVars, other, prev, req, requestId, apiKey, body, bodyRead, agent, payload,
                 upstreamCalls, aborted, clock, upstream, upstreamBody>>

\* the timer fires: controller.abort() makes the pending fetch reject
TimerFires ==
  /\ timer = "armed"
  /\ clock >= REQUEST_TIMEOUT
  /\ timer' = "fired"
  /\ aborted' = TRUE
  /\ fetchState' = "aborted"
  /\ LET st == Catch(FetchCatch(AbortError), requestId, logs)
     IN /\ pc' = st.pc
        /\ resp' = st.resp
        /\ logs' = st.logs
  /\ UNCHANGED <<chatVars, other, prev, req, requestId, apiKey, body, bodyRead, agent, payload,
                 upstreamCalls, clock, upstream, upstreamBody>>

\* response.text() of a failure status resolves
ErrorTextRead(errorText) ==
  /\ pc = "readingText"
  /\ LET st == HandleErrorText(errorText, requestId, logs)
     IN /\ pc' = st.pc
        /\ resp' = st.resp
        /\ logs' = st.logs
  /\ upstreamBody' = BodyText(errorText)
  /\ UNCHANGED <<chatVars, other, prev, req, requestId, apiKey, body, bodyRead, agent, payload,
                 upstreamCalls, fetchState, timer, aborted, clock, upstream>>

\* response.json() of a success status resolves
DataRead(data) ==
  /\ pc = "readingJson"
  /\ upstream # 204
  /\ LET st == HandleData(data, requestId, logs,
                          LocalAgent(agent, other.agent))
     IN /\ pc' = st.pc
        /\ resp' = st.resp
        /\ logs' = st.logs
  /\ upstreamBody' = BodyData(data)
  /\ UNCHANGED <<chatVars, other, prev, req, requestId, apiKey, body, bodyRead, agent, payload,
                 upstreamCalls, fetchState, timer, aborted, clock, upstream>>

\* response.text() or response.json() rejects
BodyReadFails(error) ==
  /\ pc \in {"readingText", "readingJson"}
  /\ error = JsonSyntaxError => pc = "readingJson"
  /\ LET st == Catch(error, requestId, logs)
     IN /\ pc' = st.pc
        /\ resp' = st.resp
        /\ logs' = st.logs
  /\ upstreamBody' = BodyFailed(error)
  /\ UNCHANGED <<chatVars, other, prev, req, requestId, apiKey, body, bodyRead, agent, payload,
                 upstreamCalls, fetchState, timer, aborted, clock, upstream>>

\* the clock while the timer is armed stops at the deadline, where the timer
\* fires
NextClock ==
  LET later == clock + TickMs
      limit == IF timer = "armed" THEN REQUEST_TIMEOUT ELSE MaxClock
  IN IF later > limit THEN limit ELSE later

\* time passes while the handler waits for the upstream
Tick ==
  /\ pc \in {"fetching", "readingText", "readingJson"}
  /\ NextClock > clock
  /\ clock' = NextClock
  /\ UNCHANGED <<chatVars, other, prev, pc, req, requestId, apiKey, body, bodyRead, agent, payload,
                 upstreamCalls, fetchState, timer, aborted, upstream,
                 upstreamBody, resp, logs>>

\* the response is sent and the state of the request is dropped
Close ==
  /\ pc = "done"
  /\ pc' = "idle"
  /\ req' = NoRequest
  /\ requestId' = 0
  /\ body' = DecodeFailure
  /\ bodyRead' = FALSE
  /\ agent' = ""
  /\ payload' = NoPayload
  /\ upstreamCalls' = 0
  /\ fetchState' = "none"
  /\ timer' = "none"
  /\ aborted' = FALSE
  /\ clock' = 0
  /\ upstream' = 0
  /\ upstreamBody' = BodyUnread
  /\ resp' = NoResponse
  /\ logs' = <<>>
  /\ UNCHANGED <<chatVars, apiKey, prev, other>>

\* the outcome of the request that is answered
\* the request that is answered without its message texts: headers, the
\* role and the length of each message, and what the upstream did
Frame ==
  IF agent = "" THEN NoFrame
  ELSE LET items == GetProp(body.value, "messages").items
       IN [valid |-> TRUE,
           req |-> req,
           messages |-> [i \in 1..Len(items) |->
                           [role |-> GetProp(items[i], "role").s,
                            length |-> StrLength(GetProp(items[i], "content"))]],
           fetchState |-> fetchState,
           upstream |-> upstream,
           upstreamBody |-> upstreamBody]

\* the log entries without the token
Entries ==
  [i \in 1..Len(logs) |->
     [level |-> logs[i].level, message |-> logs[i].message,
      data |-> logs[i].data]]

Outcome ==
  [code |-> IF "code" \in DOMAIN resp.body THEN resp.body.code ELSE "",
   error |-> IF "error" \in DOMAIN resp.body THEN resp.body.error ELSE "",
   classified |-> agent # "",
   content |-> IF agent # ""
                 THEN LastMessage(GetProp(body.value, "messages"))
               ELSE JStr("", 0),
   agent |-> agent,
   frame |-> Frame,
   entries |-> Entries]

\* the response is sent; a later invocation runs in the same isolate
Remember ==
  /\ pc = "done"
  /\ prev' = Outcome
  /\ pc' = "idle"
  /\ req' = NoRequest
  /\ requestId' = 0
  /\ body' = DecodeFailure
  /\ bodyRead' = FALSE
  /\ agent' = ""
  /\ payload' = NoPayload
  /\ upstreamCalls' = 0
  /\ fetchState' = "none"
  /\ timer' = "none"
  /\ aborted' = FALSE
  /\ clock' = 0
  /\ upstream' = 0
  /\ upstreamBody' = BodyUnread
  /\ resp' = NoResponse
  /\ logs' = <<>>
  /\ UNCHANGED <<chatVars, apiKey, other>>

Next ==
  \/ \E r \in Requests, id \in RequestIds :
       Receive(r.method, r.contentType, r.contentLength, id)
  \/ \E b \in RequestBodies : RequestBodyRead(b)
  \/ \E status \in UpstreamStatuses : FetchResponds(status)
  \/ FetchFails
  \/ TimerFires
  \/ \E errorText \in UpstreamTexts : ErrorTextRead(errorText)
  \/ \E data \in UpstreamData : DataRead(data)
  \/ \E error \in {BodyReadError, JsonSyntaxError} : BodyReadFails(error)
  \/ Tick
  \/ Close

Spec == Init /\ [][Next]_vars

(***************************************************************************)
(* Invocations after one another, the outcome of an earlier one kept for   *)
(* comparison.  The requests are POSTs of JSON sent in chunks; the bodies  *)
(* are the lists for the agent detection and bodies that make the handler  *)
(* throw.                                                                  *)
(***************************************************************************)
\* a text as long as "fix the bug in my program", with coding keywords too
RepeatTexts == {"run the code of a program"}

RepeatBodies ==
  {DecodeFailure, Decoded(JNull), Decoded(WithMessages(JArr(<<ValidMsg, JNull>>)))}
  \cup {Decoded(WithMessages(JArr(l))) : l \in ClassifierLists}
  \cup {Decoded(WithMessages(JArr(<<MsgObj(JStr("user", 0), JStr(t, 0))>>))) :
          t \in RepeatTexts}

RepeatStatuses == {200, 429, 500}

RepeatData ==
  {JNull,
   Choices(JArr(<<MessageOf(ContentOf(JStr("Here is an explanation...", 0)))>>))}

NextRepeat ==
  \/ \E id \in RequestIds :
       Receive("POST", Header("application/json"), NoHeader, id)
  \/ \E b \in RepeatBodies : RequestBodyRead(b)
  \/ \E status \in RepeatStatuses : FetchResponds(status)
  \/ FetchFails
  \/ TimerFires
  \/ \E errorText \in UpstreamTexts : ErrorTextRead(errorText)
  \/ \E data \in RepeatData : DataRead(data)
  \/ \E error \in {BodyReadError, JsonSyntaxError} : BodyReadFails(error)
  \/ Tick
  \/ Close
  \/ Remember

SpecRepeat == Init /\ [][NextRepeat]_vars

(***************************************************************************)
(* Two invocations in flight at the same time.  The second one runs the   *)
(* same handler on its own locals, kept in `other`; its steps interleave   *)
(* with those of the first.  Time is not counted for the second one: its   *)
(* timer may fire whenever its fetch is pending.                           *)
(***************************************************************************)
firstVars ==
  <<pc, req, requestId, apiKey, body, bodyRead, agent, payload, upstreamCalls,
    fetchState, timer, aborted, clock, upstream, upstreamBody, resp, logs,
    prev>>

\* the second invocation after a step of the handler
OtherAfter(st) ==
  [other EXCEPT !.pc = st.pc, !.resp = st.resp, !.logs = st.logs]

OtherReceive(r, id) ==
  /\ other.pc = "idle"
  /\ LET st == HandleEntry(r, id)
     IN other' = [NoOther EXCEPT !.req = r, !.requestId = id, !.pc = st.pc,
                                 !.resp = st.resp, !.logs = st.logs]
  /\ UNCHANGED <<firstVars, chatVars>>

OtherBodyRead(b) ==
  /\ other.pc = "readingRequest"
  /\ FitsDeclared(b, other.req.contentLength)
  /\ LET st == HandleBody(b, apiKey, other.requestId, other.logs)
         called == st.pc = "fetching"
     IN other' = [OtherAfter(st) EXCEPT
                    !.body = b, !.bodyRead = TRUE, !.agent = st.agent,
                    !.upstreamCalls = IF called THEN 1 ELSE 0,
                    !.fetchState = IF called THEN "pending" ELSE "none"]
  /\ UNCHANGED <<firstVars, chatVars>>

OtherFetchResponds(status) ==
  /\ other.pc = "fetching"
  /\ LET st == HandleStatus(status, other.requestId, other.logs, other.agent)
     IN other' = [OtherAfter(st) EXCEPT
                    !.fetchState = "resolved", !.upstream = status]
  /\ UNCHANGED <<firstVars, chatVars>>

\* the fetch of the second invocation rejects: the connection failed
\* (rejected) or its timer fired (aborted)
OtherFetchRejects(error, state) ==
  /\ other.pc = "fetching"
  /\ LET st == Catch(FetchCatch(error), other.requestId, other.logs)
     IN other' = [OtherAfter(st) EXCEPT !.fetchState = state]
  /\ UNCHANGED <<firstVars, chatVars>>

OtherErrorTextRead(errorText) ==
  /\ other.pc = "readingText"
  /\ LET st == HandleErrorText(errorText, other.requestId, other.logs)
     IN other' = [OtherAfter(st) EXCEPT !.upstreamBody = BodyText(errorText)]
  /\ UNCHANGED <<firstVars, chatVars>>

OtherDataRead(data) ==
  /\ other.pc = "readingJson"
  /\ other.upstream # 204
  /\ LET st == HandleData(data, other.requestId, other.logs,
                          LocalAgent(other.agent, agent))
     IN other' = [OtherAfter(st) EXCEPT !.upstreamBody = BodyData(data)]
  /\ UNCHANGED <<firstVars, chatVars>>

OtherBodyReadFails(error) ==
  /\ other.pc \in {"readingText", "readingJson"}
  /\ error = JsonSyntaxError => other.pc = "readingJson"
  /\ LET st == Catch(error, other.requestId, other.logs)
     IN other' = [OtherAfter(st) EXCEPT !.upstreamBody = BodyFailed(error)]
  /\ UNCHANGED <<firstVars, chatVars>>

OtherClose ==
  /\ other.pc = "done"
  /\ other' = NoOther
  /\ UNCHANGED <<firstVars, chatVars>>

\* the requests of the second invocation: a preflight and POSTs of JSON
PairRequests ==
  {[method |-> m, contentType |-> Header("application/json"),
    contentLength |-> NoHeader] : m \in {"OPTIONS", "POST"}}

\* its bodies: a text for the Math agent, a list with a null element
PairBodies ==
  {Decoded(WithMessages(JArr(<<MsgObj(JStr("user", 0), JStr("Solve x", 0))>>))),
   Decoded(WithMessages(JArr(<<ValidMsg, JNull>>)))}

PairStatuses == {200, 500}

\* the bodies of the first invocation: not JSON, a text for the Writing
\* agent and one for the Research agent
PairFirstBodies ==
  {DecodeFailure}
  \cup {Decoded(WithMessages(JArr(<<MsgObj(JStr("user", 0), JStr(t, 0))>>))) :
          t \in {"write a python function", "diagram: water cycle"}}

NextPair ==
  \/ \E r \in Requests, id \in RequestIds :
       Receive(r.method, r.contentType, r.contentLength, id)
  \/ \E b \in PairFirstBodies : RequestBodyRead(b)
  \/ \E status \in RepeatStatuses : FetchResponds(status)
  \/ FetchFails
  \/ TimerFires
  \/ \E errorText \in UpstreamTexts : ErrorTextRead(errorText)
  \/ \E data \in RepeatData : DataRead(data)
  \/ \E error \in {BodyReadError, JsonSyntaxError} : BodyReadFails(error)
  \/ Tick
  \/ Close
  \/ \E r \in PairRequests, id \in RequestIds : OtherReceive(r, id)
  \/ \E b \in PairBodies : OtherBodyRead(b)
  \/ \E status \in PairStatuses : OtherFetchResponds(status)
  \/ OtherFetchRejects(NetworkError, "rejected")
  \/ OtherFetchRejects(AbortError, "aborted")
  \/ \E errorText \in UpstreamTexts : OtherErrorTextRead(errorText)
  \/ \E data \in RepeatData : OtherDataRead(data)
  \/ \E error \in {BodyReadError, JsonSyntaxError} : OtherBodyReadFails(error)
  \/ OtherClose

SpecPair == Init /\ [][NextPair]_vars

(***************************************************************************)
(* The chat page with persisted sessions.  An action is an event handler   *)
(* with the renders and the effects that follow its state updates: the     *)
(* effect on [currentSessionId] loads the messages of the current session, *)
(* the effect on [messages] stores the messages in the current session.    *)
(* A message is its role and the number of the send it belongs to.         *)
(***************************************************************************)
UserMessage(k) == [role |-> "user", content |-> k]

AssistantMessage(k) == [role |-> "assistant", content |-> k]

\* sessions.find((s) => s.id === id) found a session
HasSession(list, id) == \E i \in 1..Len(list) : list[i].id = id

\* the effect on [currentSessionId]: setMessages(currentSession.messages)
\* when the session is found
LoadMessages(list, id, msgs) ==
  IF HasSession(list, id)
    THEN list[CHOOSE i \in 1..Len(list) :
                /\ list[i].id = id
                /\ \A j \in 1..(i - 1) : list[j].id # id].messages
  ELSE msgs

\* the effect on [messages]:
\* prev.map((s) => s.id === currentSessionId ? { ...s, messages } : s)
StoreMessages(list, id, msgs) ==
  [i \in 1..Len(list) |->
     IF list[i].id = id THEN Session(id, msgs) ELSE list[i]]

\* prev.filter((s) => s.id !== sessionId)
WithoutSession(list, id) == SelectSeq(list, LAMBDA s : s.id # id)

\* handleSendMessage to its await
SendMessage ==
  /\ ~isLoading
  /\ Len(sentFrom) < MaxSends
  /\ LET k == Len(sentFrom) + 1
         shown == Append(chatMessages, UserMessage(k))
     IN /\ chatMessages' = shown
        /\ sessions' = StoreMessages(sessions, currentSessionId, shown)
        /\ pending' = k
        /\ sentFrom' = Append(sentFrom, currentSessionId)
  /\ isLoading' = TRUE
  /\ UNCHANGED <<currentSessionId, nextId>>
  /\ UNCHANGED <<firstVars, other>>

\* the invoke resolves with a reply: handleSendMessage after its await
ReplyArrives ==
  /\ pending # 0
  /\ LET shown == Append(chatMessages, AssistantMessage(pending))
     IN /\ chatMessages' = shown
        /\ sessions' = StoreMessages(sessions, currentSessionId, shown)
  /\ isLoading' = FALSE
  /\ pending' = 0
  /\ UNCHANGED <<currentSessionId, sentFrom, nextId>>
  /\ UNCHANGED <<firstVars, other>>

\* the invoke gives an error: the catch shows a toast
ReplyFails ==
  /\ pending # 0
  /\ isLoading' = FALSE
  /\ pending' = 0
  /\ UNCHANGED <<sessions, currentSessionId, chatMessages, sentFrom, nextId>>
  /\ UNCHANGED <<firstVars, other>>

\* onSelectSession={setCurrentSessionId} for a session of the sidebar
SelectSession(id) ==
  /\ HasSession(sessions, id)
  /\ id # currentSessionId
  /\ currentSessionId' = id
  /\ chatMessages' = LoadMessages(sessions, id, chatMessages)
  /\ sessions' = StoreMessages(sessions, id, chatMessages')
  /\ UNCHANGED <<isLoading, pending, sentFrom, nextId>>
  /\ UNCHANGED <<firstVars, other>>

\* handleNewChat; the id is Date.now().toString(), a new one
handleNewChat ==
  /\ nextId <= MaxSessions
  /\ sessions' = <<Session(nextId, <<>>)>> \o sessions
  /\ currentSessionId' = nextId
  /\ chatMessages' = <<>>
  /\ nextId' = nextId + 1
  /\ UNCHANGED <<isLoading, pending, sentFrom>>
  /\ UNCHANGED <<firstVars, other>>

\* handleDeleteSession(sessionId) for a session of the sidebar
handleDeleteSession(sessionId) ==
  /\ HasSession(sessions, sessionId)
  /\ LET remainingSessions == WithoutSession(sessions, sessionId)
     IN IF currentSessionId = sessionId /\ Len(sessions) > 1
          THEN /\ currentSessionId' = remainingSessions[1].id
               /\ chatMessages' = LoadMessages(remainingSessions,
                                               remainingSessions[1].id,
                                               chatMessages)
               /\ sessions' = StoreMessages(remainingSessions,
                                            remainingSessions[1].id,
                                            chatMessages')
        ELSE /\ sessions' = remainingSessions
             /\ UNCHANGED <<currentSessionId, chatMessages>>
  /\ UNCHANGED <<isLoading, pending, sentFrom, nextId>>
  /\ UNCHANGED <<firstVars, other>>

NextChat ==
  \/ SendMessage
  \/ ReplyArrives
  \/ ReplyFails
  \/ \E id \in 1..MaxSessions : SelectSession(id)
  \/ handleNewChat
  \/ \E sessionId \in 1..MaxSessions : handleDeleteSession(sessionId)

SpecChat == Init /\ [][NextChat]_vars

(***************************************************************************)
(* The claims.  What a claim says of requests and message lists is stated  *)
(* here in its own terms, not with the operators of the handler.           *)
(***************************************************************************)
\* the request has been answered
Answered == pc = "done"

\* req.json() gave a decoded body
BodyDecoded == bodyRead /\ body.ok

\* the `messages` of the decoded body; a body that is not an object has none
MessagesOfBody ==
  IF body.value.t = "object" THEN body.value.fields["messages"] ELSE Undefined

\* the decoded body holds a message list
HasMessageList == BodyDecoded /\ MessagesOfBody.t = "array"

MessageItems == MessagesOfBody.items

\* a list of 1 to 50 entries
ListSizeOk(items) == Len(items) >= 1 /\ Len(items) <= MAX_MESSAGES

\* the property p of element e is present
Has(e, p) == e.t = "object" /\ Truthy(e.fields[p])

\* an element that lacks role or content: null, not an object, or an object
\* without one of them
LacksField(e) == ~Has(e, "role") \/ ~Has(e, "content")

\* a message whose role is none of the three
HasBadRole(e) ==
  /\ Has(e, "role")
  /\ e.fields["role"] \notin {JStr(r, 0) : r \in AllowedRoles}

\* a message whose content is not text
HasNonTextContent(e) == Has(e, "content") /\ e.fields["content"].t # "string"

\* a message whose content is text of more than 10,000 characters
HasLongContent(e) ==
  /\ Has(e, "content")
  /\ e.fields["content"].t = "string"
  /\ StrLength(e.fields["content"]) > MaxContentLen

\* an element that violates no rule
WellFormed(e) ==
  ~LacksField(e) /\ ~HasBadRole(e) /\ ~HasNonTextContent(e) /\ ~HasLongContent(e)

\* the response is the validation error `error`
RejectedWith(error) == resp = JsonError(400, error)

\* C1: a decoded body whose `messages` is absent, not an array, empty or
\* longer than 50 entries (a body that is null or a scalar has no messages)
\* is answered 400 with the error text of that rule, and no upstream call is
\* made.
C1_ShapeRejected ==
  (BodyDecoded /\ Answered) =>
    /\ MessagesOfBody.t # "array" =>
         RejectedWith(ErrNotArray) /\ upstreamCalls = 0
    /\ (MessagesOfBody.t = "array" /\ Len(MessageItems) = 0) =>
         RejectedWith(ErrEmpty) /\ upstreamCalls = 0
    /\ (MessagesOfBody.t = "array" /\ Len(MessageItems) > MAX_MESSAGES) =>
         RejectedWith(ErrTooMany) /\ upstreamCalls = 0

\* some element of the list violates a rule
SomeBad(items) == \E i \in 1..Len(items) : ~WellFormed(items[i])

\* the position of the first element that violates a rule
FirstBad(items) ==
  CHOOSE i \in 1..Len(items) :
    ~WellFormed(items[i]) /\ \A j \in 1..(i - 1) : WellFormed(items[j])

\* every element of the list is a message object
AllObjects(items) == \A i \in 1..Len(items) : items[i].t = "object"

\* C2: a list in which an element lacks role or content (a null element and
\* an element that is not an object lack both) fails validation with
\* MissingField and is answered 400; no validation failure is answered with
\* a 5xx status or reaches the upstream call.
C2_MissingFieldRejected ==
  (HasMessageList /\ Answered /\ ListSizeOk(MessageItems)
     /\ SomeBad(MessageItems)) =>
    /\ upstreamCalls = 0
    /\ resp.status < 500
    /\ LacksField(MessageItems[FirstBad(MessageItems)]) =>
         RejectedWith(ErrMissingField)

C4_LongContentRejected ==
  (HasMessageList /\ Answered
     /\ \E i \in 1..Len(MessageItems) : HasLongContent(MessageItems[i])) =>
    resp.status = 400 /\ upstreamCalls = 0

\* the error of the first rule, in the order of the rules, that some element
\* of the list violates ("" when none does)
RuleOrderError(m) ==
  IF m.t # "array" THEN ErrNotArray
  ELSE IF Len(m.items) = 0 THEN ErrEmpty
  ELSE IF Len(m.items) > MAX_MESSAGES THEN ErrTooMany
  ELSE IF \E i \in 1..Len(m.items) : LacksField(m.items[i]) THEN ErrMissingField
  ELSE IF \E i \in 1..Len(m.items) : HasBadRole(m.items[i]) THEN ErrInvalidRole
  ELSE IF \E i \in 1..Len(m.items) : HasNonTextContent(m.items[i])
    THEN ErrContentType
  ELSE IF \E i \in 1..Len(m.items) : HasLongContent(m.items[i]) THEN ErrTooLong
  ELSE ""

\* the error of the first rule that element e violates
ElementError(e) ==
  IF LacksField(e) THEN ErrMissingField
  ELSE IF HasBadRole(e) THEN ErrInvalidRole
  ELSE IF HasNonTextContent(e) THEN ErrContentType
  ELSE ErrTooLong

\* the error of the first check that fails when the three rules on the list
\* are checked first and then the elements one after the other, each against
\* the four rules on an element ("" when none fails)
CheckOrderError(m) ==
  IF m.t # "array" THEN ErrNotArray
  ELSE IF Len(m.items) = 0 THEN ErrEmpty
  ELSE IF Len(m.items) > MAX_MESSAGES THEN ErrTooMany
  ELSE IF SomeBad(m.items) THEN ElementError(m.items[FirstBad(m.items)])
  ELSE ""

\* the first failing check is the role/content check of a null element
FirstBadIsNull(m) ==
  /\ m.t = "array" /\ ListSizeOk(m.items) /\ SomeBad(m.items)
  /\ m.items[FirstBad(m.items)].t = "null"

TimeoutResponse ==
  JsonCoded(504, "Request timed out. Please try again.", "TIMEOUT")

\* C6: while the upstream call is in flight the 30-second timer is pending;
\* when it fires, the abort signal is delivered to the fetch in flight and
\* the request is answered 504 TIMEOUT; a cancelled call is never answered
\* 500 INTERNAL_ERROR or 503 AI_SERVICE_ERROR.
C6_TimeoutCancels ==
  /\ fetchState = "pending" => timer = "armed"
  /\ timer = "fired" =>
       /\ aborted
       /\ fetchState = "aborted"
       /\ Answered
       /\ resp = TimeoutResponse
  /\ (aborted \/ fetchState = "aborted") => resp.status \notin {500, 503}

\* C6's case: the upstream stalled, the timer fired at 30 s and the request
\* was answered 504
C6_Witness ==
  /\ timer = "fired"
  /\ clock = REQUEST_TIMEOUT
  /\ fetchState = "aborted"
  /\ resp.status = 504

\* C7: once more than 30 s have passed since the upstream call was issued,
\* the request has been answered, whether the upstream stalled before its
\* status or while its body was read.
C7_NeverWaitingPastBound ==
  (upstreamCalls > 0 /\ clock > REQUEST_TIMEOUT) => Answered

\* the request passes the content-type, size, decode, validation and
\* credential checks
PassesChecks ==
  /\ req.method # "OPTIONS"
  /\ IsJsonContentType(req.contentType)
  /\ ~PayloadTooLarge(req.contentLength)
  /\ HasMessageList
  /\ ListSizeOk(MessageItems)
  /\ ~SomeBad(MessageItems)
  /\ apiKey.present /\ apiKey.s # ""

\* C8: a request issues at most one upstream call: exactly one when it
\* passes the content-type, size, decode, validation and credential checks,
\* none otherwise, and still one after the upstream answered, failed or
\* timed out.
C8_SingleUpstreamCall ==
  /\ upstreamCalls <= 1
  /\ pc \in {"fetching", "readingText", "readingJson"} => upstreamCalls = 1
  /\ Answered => upstreamCalls = (IF PassesChecks THEN 1 ELSE 0)
  /\ (upstream # 0 \/ fetchState \in {"rejected", "aborted"}) =>
       upstreamCalls = 1

\* C8's case: the upstream answered with a failure status, the request was
\* answered, and one call was made
C8_Witness ==
  /\ Answered
  /\ upstream = 500
  /\ resp.status = 503
  /\ upstreamCalls = 1

\* C9: an upstream 429 is answered 429 RATE_LIMIT_EXCEEDED, an upstream 402
\* is answered 402 PAYMENT_REQUIRED, every other upstream status outside
\* 200..299 is answered 503 AI_SERVICE_ERROR.
C9_StatusMapping ==
  (Answered /\ upstream # 0 /\ ~(upstream >= 200 /\ upstream <= 299)) =>
    IF upstream = 429
      THEN resp.status = 429 /\ resp.body.code = "RATE_LIMIT_EXCEEDED"
    ELSE IF upstream = 402
      THEN resp.status = 402 /\ resp.body.code = "PAYMENT_REQUIRED"
    ELSE resp.status = 503 /\ resp.body.code = "AI_SERVICE_ERROR"

\* the decoded upstream body v holds the text of a first choice
HasReplyContent(v) ==
  /\ v.t = "object"
  /\ v.fields["choices"].t = "array"
  /\ Len(v.fields["choices"].items) > 0
  /\ Has(v.fields["choices"].items[1], "message")
  /\ Has(v.fields["choices"].items[1].fields["message"], "content")

\* C10: an upstream response with a success status is answered 200, whatever
\* the shape of its decoded body, with the fallback reply when the body holds
\* no first-choice content; a shape mismatch never gives a 5xx.
C10_ShapeMismatchSoft ==
  (Answered /\ upstream >= 200 /\ upstream <= 299
     /\ upstreamBody.kind = "json") =>
    /\ resp.status = 200
    /\ ~HasReplyContent(upstreamBody.value) =>
         resp.body = ReplyBody(agent, Fallback)

\* the messages of the exceptions the catch block logged for this request
CaughtMessages ==
  {logs[i].data.message :
     i \in {j \in 1..Len(logs) : logs[j].message = "Unhandled error"}}

\* the response is an error response with its sentence
HasErrorText == Answered /\ "error" \in DOMAIN resp.body

\* C11: the error sentence of an error response is determined by its code
\* alone: an earlier and a later failing request with the same code have the
\* same sentence, and the sentence is not the message of a thrown exception,
\* not the text of the upstream response and not a value of the environment.
C11_ErrorTextByCode ==
  HasErrorText =>
    /\ resp.body.error \notin CaughtMessages
    /\ upstreamBody.kind = "text" /\ upstreamBody.text # "" =>
         resp.body.error # upstreamBody.text
    /\ apiKey.present => resp.body.error # apiKey.s
    /\ ("code" \in DOMAIN resp.body /\ prev.code = resp.body.code) =>
         prev.error = resp.body.error

\* the content of the last element of the list
LastContent == MessageItems[Len(MessageItems)].fields["content"]

\* the keyword rules in the order the profiles are tried
KeywordRules ==
  <<[keywords |-> MathKeywords, profile |-> AgentMath],
    [keywords |-> WritingKeywords, profile |-> AgentWriting],
    [keywords |-> CodingKeywords, profile |-> AgentCoding]>>

\* the rules a text matches
RulesMatching(text) ==
  {i \in DOMAIN KeywordRules : RegexTest(KeywordRules[i].keywords, text)}

\* the text of the first choice of the decoded upstream body
FirstChoiceContent ==
  upstreamBody.value.fields["choices"].items[1].fields["message"].fields["content"]

\* the upstream answered a success status with a first choice of some text
UpstreamGaveText ==
  /\ upstream >= 200 /\ upstream <= 299
  /\ upstreamBody.kind = "json"
  /\ HasReplyContent(upstreamBody.value)
  /\ FirstChoiceContent.t = "string"

\* C12: a valid request whose last message matches no math, writing or
\* coding keyword, answered by the upstream with first-choice content c, is
\* answered 200 with the body {agent: "General Research Agent", reply: c}.
C12_DefaultProfileReply ==
  (Answered /\ PassesChecks /\ RulesMatching(LastContent) = {}
     /\ UpstreamGaveText) =>
    /\ resp.status = 200
    /\ resp.body = ReplyBody(AgentInitial, FirstChoiceContent)

\* the handler selected an agent for the request
AgentSelected == agent # ""

\* the least of a non-empty set of rule numbers
FirstOf(rules) == CHOOSE i \in rules : \A j \in rules : i <= j

\* C13: the profile selected is that of the first rule, in the order Math,
\* Writing, Coding, that the classified content matches, and the research
\* profile when none matches: a text with a math and a coding keyword gets
\* Math, a text with a writing and a coding keyword and no math keyword gets
\* Writing.
C13_FirstMatchingRule ==
  AgentSelected =>
    LET matching == RulesMatching(LastContent)
    IN IF matching = {} THEN agent = AgentResearch
       ELSE agent = KeywordRules[FirstOf(matching)].profile

\* "calculate the runtime of this algorithm", which has a math and a coding
\* keyword, was classified
C13_Witness ==
  /\ AgentSelected
  /\ LastContent = JStr("calculate the runtime of this algorithm", 0)
  /\ RulesMatching(LastContent) = {1, 3}
  /\ agent = AgentMath

\* the four profiles
Profiles == {AgentMath, AgentWriting, AgentCoding, AgentResearch}

\* an earlier request classified the content this request classifies
SameContentBefore == prev.classified /\ prev.content = LastContent

UserPositions ==
  {i \in 1..Len(MessageItems) : MessageItems[i].fields["role"] = JStr("user", 0)}

\* the content of the most recent message whose role is user
LastUserContent ==
  LET last == CHOOSE i \in UserPositions : \A j \in UserPositions : j <= i
  IN MessageItems[last].fields["content"]

\* the profile of the first rule the text matches, the research profile when
\* it matches none
ProfileFor(text) ==
  IF RulesMatching(text) = {} THEN AgentResearch
  ELSE KeywordRules[FirstOf(RulesMatching(text))].profile

\* C15: the agent is selected from the content of the most recent message
\* whose role is user; the keywords of an assistant or system message that
\* ends the list do not decide the agent.
C15_LastUserMessageClassified ==
  (AgentSelected /\ UserPositions # {}) => agent = ProfileFor(LastUserContent)

\* a request other than a preflight has arrived
RequestArrived == pc # "idle" /\ req.method # "OPTIONS"

\* the content types of the model whose media type is JSON (media types
\* are case-insensitive; a parameter does not change the media type)
JsonDeclaring ==
  {Header("application/json"), Header("application/json; charset=utf-8"),
   Header("Application/JSON")}

\* the response has the status and the code
AnsweredWithCode(status, code) ==
  /\ Answered
  /\ resp.status = status
  /\ "code" \in DOMAIN resp.body
  /\ resp.body.code = code

\* C16: a request other than OPTIONS whose content-type is absent or does
\* not declare JSON is answered 400 with code UNSUPPORTED_MEDIA_TYPE, its
\* body is not read and no upstream call is made.
C16_NonJsonRejected ==
  (RequestArrived /\ req.contentType \notin JsonDeclaring) =>
    /\ AnsweredWithCode(400, "UNSUPPORTED_MEDIA_TYPE")
    /\ ~bodyRead
    /\ upstreamCalls = 0

\* the declared size is a number above the limit
DeclaresTooLarge ==
  /\ req.contentLength.present
  /\ ~parseInt(req.contentLength.s).nan
  /\ parseInt(req.contentLength.s).n > MAX_PAYLOAD_SIZE

\* C17: a request with an accepted content-type whose content-length
\* declares more than 100 KB is answered 413 with code PAYLOAD_TOO_LARGE,
\* its body is not read and no upstream call is made.
C17_DeclaredSizeRejected ==
  (RequestArrived /\ IsJsonContentType(req.contentType) /\ DeclaresTooLarge) =>
    /\ AnsweredWithCode(413, "PAYLOAD_TOO_LARGE")
    /\ ~bodyRead
    /\ upstreamCalls = 0

\* the body was decoded and its list passed validateMessages
PassedValidation ==
  \E i \in 1..Len(logs) : logs[i].message = "Request validated"

\* C18: an envelope that passes the parser and the validator holds 1 to 50
\* messages and its serialized body is at most 100 KB, whether or not a
\* content-length was declared.
C18_EnvelopeBounds ==
  PassedValidation =>
    /\ ListSizeOk(MessageItems)
    /\ JsonSize(body.value) <= MAX_PAYLOAD_SIZE

\* the system prompt of a profile
PromptOf(profile) ==
  CASE profile = AgentMath -> PromptMath
    [] profile = AgentWriting -> PromptWriting
    [] profile = AgentCoding -> PromptCoding
    [] profile = AgentResearch -> PromptResearch

\* a message with one of the three roles and a text of 1 to 10,000
\* characters
ForwardableMessage(e) ==
  /\ e.t = "object"
  /\ e.fields["role"] \in {JStr(r, 0) : r \in AllowedRoles}
  /\ e.fields["content"].t = "string"
  /\ StrLength(e.fields["content"]) >= 1
  /\ StrLength(e.fields["content"]) <= MaxContentLen

\* C19: the upstream call carries a system message with the prompt of the
\* selected profile, then the messages of the request in their order and
\* unchanged, each with one of the three roles and a text of 1 to 10,000
\* characters, with temperature 0.7 and a limit of 1000 tokens.
C19_ForwardedUnchanged ==
  upstreamCalls > 0 =>
    /\ payload.messages[1]
         = MsgObj(JStr("system", 0), JStr(PromptOf(agent), 0))
    /\ Tail(payload.messages) = MessageItems
    /\ \A i \in 1..Len(MessageItems) : ForwardableMessage(MessageItems[i])
    /\ payload.temperature = "0.7"
    /\ payload.max_tokens = 1000

\* a list of a user and an assistant message was forwarded and answered
C19_Witness ==
  /\ Answered
  /\ upstreamCalls = 1
  /\ Len(MessageItems) = 2
  /\ MessageItems[2].fields["role"] = JStr("assistant", 0)
  /\ Len(payload.messages) = 3

\* req.json() rejected: the body is not JSON
DecodeFailed == bodyRead /\ ~body.ok

\* what the steps after the decoding log
LaterStepMessages ==
  {"Validation failed", "Request validated", "LOVABLE_API_KEY not configured",
   "Agent selected", "Unhandled error"}

\* C20: a body that fails JSON decoding is answered 400 and nothing follows:
\* no validation, no read of the credential, no agent detection and no
\* upstream call.
C20_DecodeFailureEnds ==
  DecodeFailed =>
    /\ Answered
    /\ resp = JsonError(400, "Invalid JSON in request body")
    /\ \A i \in 1..Len(logs) : logs[i].message \notin LaterStepMessages
    /\ ~AgentSelected
    /\ upstreamCalls = 0

\* a body that is not JSON was answered while the credential is unset
C20_Witness == DecodeFailed /\ Answered /\ ~apiKey.present

\* the environment holds no credential
CredentialAbsent == ~apiKey.present \/ apiKey.s = ""

\* C21: with the credential absent, a request that passes validation is
\* answered 500 with code INTERNAL_ERROR, no upstream call is made for it and
\* it is never answered with a success status.
C21_FailsClosed ==
  (PassedValidation /\ CredentialAbsent) =>
    /\ AnsweredWithCode(500, "INTERNAL_ERROR")
    /\ upstreamCalls = 0
    /\ fetchState = "none"

\* a validated request was answered while the credential is absent
C21_Witness ==
  /\ PassedValidation
  /\ CredentialAbsent
  /\ Answered
  /\ Len(MessageItems) = 2

\* an OPTIONS request has arrived
PreflightArrived == pc # "idle" /\ req.method = "OPTIONS"

\* C22: an OPTIONS request is answered with a 2xx response without a body
\* that carries the cross-origin headers (any origin, the allowed request
\* headers), whatever its headers, the credential and the state of another
\* request in flight; its body is not read and the upstream is not called.
C22_PreflightAnswered ==
  PreflightArrived =>
    /\ Answered
    /\ resp.status >= 200 /\ resp.status <= 299
    /\ resp.body = EmptyBody
    /\ resp.headers["Access-Control-Allow-Origin"] = "*"
    /\ resp.headers["Access-Control-Allow-Headers"]
         = "authorization, x-client-info, apikey, content-type"
    /\ ~bodyRead
    /\ upstreamCalls = 0

\* an OPTIONS request without a JSON content type that declares a large
\* body was answered while the credential is absent and another request
\* is in flight
C22_Witness ==
  /\ PreflightArrived
  /\ Answered
  /\ req.contentType = Header("text/plain")
  /\ req.contentLength = Header("250000")
  /\ CredentialAbsent
  /\ other.pc = "readingRequest"

\* the decoded body holds no list that passes the validation rules
InvalidList ==
  ~(HasMessageList /\ ListSizeOk(MessageItems) /\ ~SomeBad(MessageItems))

\* the response has the status, and neither the agent detection nor the
\* upstream call was reached
StoppedWith(status) ==
  Answered /\ resp.status = status /\ ~AgentSelected /\ upstreamCalls = 0

\* C24: the stages run in the order content-type check, declared-size
\* check, JSON decode, validation, credential check, agent detection,
\* upstream call, and the response is that of the first stage that fails:
\* a wrong content type with an oversized declared length gets 400, an
\* invalid list with the credential absent gets 400.
C24_FirstFailingStage ==
  RequestArrived =>
    IF ~IsJsonContentType(req.contentType)
      THEN StoppedWith(400) /\ ~bodyRead
    ELSE IF DeclaresTooLarge THEN StoppedWith(413) /\ ~bodyRead
    ELSE bodyRead =>
           IF ~body.ok THEN StoppedWith(400)
           ELSE IF InvalidList THEN StoppedWith(400)
           ELSE IF CredentialAbsent THEN StoppedWith(500)
           ELSE AgentSelected /\ upstreamCalls = 1

\* the messages of the log entries that record an outcome with the status
OutcomeMessages(status) ==
  CASE status = 200 -> {"Response generated successfully"}
    [] status = 400 ->
         {"Invalid content-type", "Invalid JSON payload", "Validation failed"}
    [] status = 413 -> {"Payload too large"}
    [] status \in {402, 429} -> {"AI gateway error"}
    [] status = 503 -> {"AI gateway detailed error"}
    [] status \in {500, 504} -> {"Unhandled error"}
    [] OTHER -> {}

\* C25: a request other than OPTIONS has one correlation token from its
\* entry on, its first log entry is the entry log, each of its log entries
\* carries that token with a level and a message, and its response is
\* preceded by a log entry that records the outcome.
C25_LoggedWithToken ==
  RequestArrived =>
    /\ requestId \in RequestIds
    /\ Len(logs) >= 1
    /\ logs[1].message = "Incoming request"
    /\ \A i \in 1..Len(logs) :
         /\ logs[i].requestId = requestId
         /\ logs[i].level \in {"info", "warn", "error"}
         /\ logs[i].message # ""
    /\ Answered =>
         /\ logs[Len(logs)].message \in OutcomeMessages(resp.status)
         /\ resp.status >= 400 => logs[Len(logs)].level \in {"warn", "error"}

\* a request was answered from the catch block after several log entries
C25_Witness ==
  /\ RequestArrived
  /\ Answered
  /\ resp.status = 500
  /\ Len(logs) >= 4

\* the upstream call failed in transport: the connection failed, or the
\* body of the upstream response could not be read or decoded
TransportFailed == fetchState = "rejected" \/ upstreamBody.kind = "failed"

\* C27: a response with status 504 or code TIMEOUT is given only when the
\* timer fired and aborted the upstream call; a transport failure of the
\* upstream call before the timer fires is answered 500 INTERNAL_ERROR.
C27_TimeoutOnlyByTimer ==
  Answered =>
    /\ (resp.status = 504
          \/ ("code" \in DOMAIN resp.body /\ resp.body.code = "TIMEOUT")) =>
         /\ timer = "fired"
         /\ aborted
         /\ fetchState = "aborted"
         /\ clock >= REQUEST_TIMEOUT
    /\ TransportFailed =>
         AnsweredWithCode(500, "INTERNAL_ERROR") /\ timer # "fired"

\* the connection failed some time after the call and before the deadline
C27_Witness ==
  /\ Answered
  /\ fetchState = "rejected"
  /\ clock > 0 /\ clock < REQUEST_TIMEOUT
  /\ resp.status = 500

\* C30: fetchWithTimeout clears the timer on every exit path: once the
\* fetch has returned a response or thrown, the timer is not pending and the
\* abort is never triggered for that request.
C30_TimerCleared ==
  /\ fetchState \in {"resolved", "rejected"} =>
       timer = "cleared" /\ ~aborted
  /\ timer = "armed" => fetchState = "pending"

\* the fetch returned a response and the deadline passed while its body
\* was awaited
C30_Witness ==
  /\ fetchState = "resolved"
  /\ clock > REQUEST_TIMEOUT
  /\ timer = "cleared"

\* the texts of a log entry: its message and the texts of its detail
LogTexts(entry) ==
  {entry.message}
  \cup {entry.data[f] :
          f \in DOMAIN entry.data
                \cap {"error", "agent", "errorText", "message", "stack",
                      "lastMessage", "content"}}

\* the message texts of the decoded body
ContentTexts ==
  IF ~HasMessageList THEN {}
  ELSE {MessageItems[i].fields["content"].s :
          i \in {j \in 1..Len(MessageItems) :
                   /\ MessageItems[j].t = "object"
                   /\ MessageItems[j].fields["content"].t = "string"
                   /\ Len(MessageItems[j].fields["content"].s) > 0}}

\* an earlier request had the headers, the roles, the text lengths, the
\* agent and the upstream outcome of this one
SameFrameBefore ==
  /\ Answered
  /\ AgentSelected
  /\ prev.frame = Frame
  /\ prev.agent = agent

\* C26: no log entry of a request holds the text of a message: a log text
\* never contains a message text of the request, and two requests that
\* differ only in message texts of the same lengths, with the same agent and
\* the same upstream outcome, have the same log entries apart from the token.
C26_LogsWithoutContent ==
  /\ \A i \in 1..Len(logs) :
       \A text \in LogTexts(logs[i]) :
         \A content \in ContentTexts : ~Includes(text, content)
  /\ SameFrameBefore => prev.entries = Entries

\* two answered requests that differ only in their message text
C26_Witness ==
  /\ SameFrameBefore
  /\ prev.content # LastContent
  /\ resp.status = 200

\* the response of a request handled alone: the steps of the handler run
\* one after the other on the request r with token id and body b, with the
\* credential key, the fetch ending in state fs with status up and the
\* upstream body read as ub
AloneResponse(r, id, key, b, fs, up, ub) ==
  LET entered == HandleEntry(r, id)
      decoded == HandleBody(b, key, id, entered.logs)
      mapped == HandleStatus(up, id, decoded.logs, decoded.agent)
  IN IF entered.pc = "done" THEN entered.resp
     ELSE IF decoded.pc = "done" THEN decoded.resp
     ELSE IF fs = "rejected" THEN CatchResponse(FetchCatch(NetworkError))
     ELSE IF fs = "aborted" THEN CatchResponse(FetchCatch(AbortError))
     ELSE IF mapped.pc = "done" THEN mapped.resp
     ELSE IF ub.kind = "failed" THEN CatchResponse(Thrown("", ub.text))
     ELSE IF ub.kind = "text"
       THEN HandleErrorText(ub.text, id, mapped.logs).resp
     ELSE HandleData(ub.value, id, mapped.logs, decoded.agent).resp

\* every entry of the log carries the token
TokensAre(entries, id) ==
  \A i \in 1..Len(entries) : entries[i].requestId = id

\* C23: with two requests handled at the same time, in any interleaving of
\* their steps, the response of each is the one it gets when handled alone
\* and its log entries carry its own token.
C23_Isolation ==
  /\ TokensAre(logs, requestId)
  /\ TokensAre(other.logs, other.requestId)
  /\ Answered =>
       resp = AloneResponse(req, requestId, apiKey, body, fetchState,
                            upstream, upstreamBody)
  /\ other.pc = "done" =>
       other.resp = AloneResponse(other.req, other.requestId, apiKey,
                                  other.body, other.fetchState,
                                  other.upstream, other.upstreamBody)

\* a request for the Writing agent was answered while a request for the
\* Math agent, which arrived first or later, awaits the upstream
C23_Witness ==
  /\ Answered
  /\ resp.status = 200
  /\ "agent" \in DOMAIN resp.body
  /\ resp.body.agent = AgentWriting
  /\ other.pc \in {"fetching", "readingJson"}
  /\ other.agent = AgentMath
  /\ other.requestId # requestId


\* the reply to send k is among the messages
HoldsReply(msgs, k) ==
  \E i \in 1..Len(msgs) : msgs[i] = AssistantMessage(k)

\* C28: the assistant reply to a sent message is appended to the messages
\* of the session the message was sent from, also when another session was
\* selected or created while the request was in flight, and is never stored
\* in another session.
C28_ReplyInOwnSession ==
  \A k \in 1..Len(sentFrom) :
    \A i \in 1..Len(sessions) :
      HoldsReply(sessions[i].messages, k) => sessions[i].id = sentFrom[k]

\* C29: after any sequence of new-chat, select-session and delete-session
\* operations currentSessionId is the id of a session of the sessions list.
C29_CurrentSessionExists == HasSession(sessions, currentSessionId)

====
